---------------------------- MODULE Spec2Model ----------------------------
(***************************************************************************)
(* A model of the Chip-8 interpreter (package chip8) and of the host loop  *)
(* that drives it (package main).                                          *)
(*                                                                         *)
(* Representation of the arrays of the Chip8 struct:                       *)
(*   mem   [0x1000]uint8  -> a function whose domain is the set of         *)
(*                           addresses holding a non-zero byte; any other  *)
(*                           address in 0..0xFFF reads 0 (MemGet/MemSet).  *)
(*   Gfx   [64][32]uint8  -> the set of cells <<col, row>> holding 1; the  *)
(*                           code only ever stores 0 or 1.                 *)
(*   Key   [0x10]bool     -> the set of indices whose flag is true.        *)
(*   v, stack             -> functions on 0..15.                           *)
(* An index outside an array's range is a Go run-time panic; the machine   *)
(* record carries it in the fields ret = "panic" and fault.                *)
(***************************************************************************)
EXTENDS Integers, Sequences, FiniteSets, TLC

\* ------------------------------------------------------------------------
\* Bounds of the model
\* ------------------------------------------------------------------------

\* rand.Intn(0x100) is drawn from the bytes within RandEdge of 0, 128 and 256
RandEdge == 2

\* only the keys 0..MaxKey of the keypad are ever pressed or released
MaxKey == 1

\* glfw.WaitEvents / glfw.PollEvents dispatch at most MaxEvents key events
MaxEvents == 1

\* ------------------------------------------------------------------------
\* Constants of the program
\* ------------------------------------------------------------------------

DisplayWidth == 64

DisplayHeight == 32

maxRomSize == 4095 - 512 + 1

MemSize == 4096

StackSize == 16

NumKeys == 16

fontset ==
  << 240, 144, 144, 144, 240,
     32, 96, 32, 32, 112,
     240, 16, 240, 128, 240,
     240, 16, 240, 16, 240,
     144, 144, 240, 16, 16,
     240, 128, 240, 16, 240,
     240, 128, 240, 144, 240,
     240, 16, 32, 64, 64,
     240, 144, 240, 144, 240,
     240, 144, 240, 16, 240,
     240, 144, 240, 144, 144,
     224, 144, 224, 144, 224,
     240, 128, 128, 128, 240,
     224, 144, 144, 144, 224,
     240, 128, 240, 128, 240,
     240, 128, 240, 128, 128 >>

\* ------------------------------------------------------------------------
\* Fixed-width arithmetic
\* ------------------------------------------------------------------------

U8(n) == n % 256

U16(n) == n % 65536

RECURSIVE BitAnd(_, _)
BitAnd(a, b) ==
  IF a = 0 \/ b = 0 THEN 0
  ELSE (a % 2) * (b % 2) + 2 * BitAnd(a \div 2, b \div 2)

RECURSIVE BitOr(_, _)
BitOr(a, b) ==
  IF a = 0 THEN b
  ELSE IF b = 0 THEN a
  ELSE (IF a % 2 = 1 \/ b % 2 = 1 THEN 1 ELSE 0) + 2 * BitOr(a \div 2, b \div 2)

RECURSIVE BitXor(_, _)
BitXor(a, b) ==
  IF a = 0 THEN b
  ELSE IF b = 0 THEN a
  ELSE ((a + b) % 2) + 2 * BitXor(a \div 2, b \div 2)

Shr(a, n) == a \div (2 ^ n)

\* ------------------------------------------------------------------------
\* Arrays
\* ------------------------------------------------------------------------

MemGet(mm, a) == IF a \in DOMAIN mm THEN mm[a] ELSE 0

MemSet(mm, a, b) ==
  IF b = 0
    THEN [z \in (DOMAIN mm) \ {a} |-> mm[z]]
    ELSE [z \in (DOMAIN mm) \cup {a} |-> IF z = a THEN b ELSE mm[z]]

\* ------------------------------------------------------------------------
\* New
\* ------------------------------------------------------------------------

New ==
  [ Gfx   |-> {},
    Key   |-> {},
    Draw  |-> FALSE,
    mem   |-> [a \in {z \in 0..(Len(fontset) - 1) : fontset[z + 1] # 0}
                 |-> fontset[a + 1]],
    v     |-> [r \in 0..15 |-> 0],
    stack |-> [s \in 0..(StackSize - 1) |-> 0],
    i     |-> 0,
    pc    |-> 512,
    sp    |-> 0,
    dt    |-> 0,
    st    |-> 0,
    ret   |-> "run",
    fault |-> "none",
    errv  |-> 0 ]

\* ------------------------------------------------------------------------
\* Outcomes of a Cycle
\* ------------------------------------------------------------------------

\* a Go run-time panic: index idx is outside the array named by kind
Panic(m, kind, idx) == [m EXCEPT !.ret = "panic", !.fault = kind, !.errv = idx]

\* an unknown opcode that is stepped over
UnknownAdvance(m, op) ==
  [m EXCEPT !.ret = "Unknown", !.errv = op, !.pc = (m.pc + 2) % 65536]

\* goto Unknown: fmt.Errorf("Unknown opcode 0x%x", op)
Unknown(m, op) == [m EXCEPT !.ret = "Unknown", !.errv = op]

\* fmt.Errorf("Expected Vx <= 0xf but found Vx=0x%x", c8.v[x])
InvalidDigit(m, vx) == [m EXCEPT !.ret = "Digit", !.errv = vx]

\* incPc that never skips
incPcNoSkip(m, skipNextInstruction) == [m EXCEPT !.pc = U16(m.pc + 2)]

incPc(m, skipNextInstruction) ==
  IF skipNextInstruction
    THEN [m EXCEPT !.pc = U16(m.pc + 4)]
    ELSE [m EXCEPT !.pc = U16(m.pc + 2)]

\* the statement after a switch, reached only when the switch fell through
IncIfRunning(m) == IF m.ret = "run" THEN incPc(m, FALSE) ELSE m

\* ------------------------------------------------------------------------
\* Decoding
\* ------------------------------------------------------------------------

OpX(op) == U8(Shr(BitAnd(op, 3840), 8))

OpY(op) == U8(Shr(BitAnd(op, 240), 4))

OpKK(op) == U8(BitAnd(op, 255))

OpNNN(op) == BitAnd(op, 4095)

OpN(op) == U8(BitAnd(op, 15))

\* ------------------------------------------------------------------------
\* Instructions
\* ------------------------------------------------------------------------

\* 00E0 - CLS
ExecCLS(m) == [m EXCEPT !.Gfx = {}, !.Draw = TRUE]

\* 00EE - RET
ExecRET(m) ==
  LET s  == U8(m.sp - 1)
      m1 == [m EXCEPT !.sp = s]
  IN  IF s >= StackSize
        THEN Panic(m1, "stack", s)
        ELSE [m1 EXCEPT !.pc = m.stack[s]]

Exec0(m, op) ==
  LET lo == BitAnd(op, 255)
  IN  IF lo = 224 THEN IncIfRunning(ExecCLS(m))
      ELSE IF lo = 238 THEN IncIfRunning(ExecRET(m))
      ELSE Unknown(m, op)

\* 1nnn - JP addr
ExecJP(m, op) == [m EXCEPT !.pc = OpNNN(op)]

\* CALL that pushes the address after the call
ExecCALLPushNext(m, op) ==
  IF m.sp >= StackSize
    THEN Panic(m, "stack", m.sp)
    ELSE [m EXCEPT !.stack[m.sp] = U16(m.pc + 2), !.sp = U8(m.sp + 1),
                   !.pc = OpNNN(op)]

\* 2nnn - CALL addr
ExecCALL(m, op) ==
  IF m.sp >= StackSize
    THEN Panic(m, "stack", m.sp)
    ELSE [m EXCEPT !.stack[m.sp] = m.pc, !.sp = U8(m.sp + 1), !.pc = OpNNN(op)]

\* 3xkk - SE Vx, byte
ExecSEbyte(m, op) == incPc(m, m.v[OpX(op)] = OpKK(op))

\* 4xkk - SNE Vx, byte
ExecSNEbyte(m, op) == incPc(m, m.v[OpX(op)] # OpKK(op))

\* 5xy0 - SE Vx, Vy
Exec5(m, op) ==
  IF BitAnd(op, 15) = 0
    THEN incPc(m, m.v[OpX(op)] = m.v[OpY(op)])
    ELSE Unknown(m, op)

\* 6xkk - LD Vx, byte
ExecLDbyte(m, op) == incPc([m EXCEPT !.v[OpX(op)] = OpKK(op)], FALSE)

\* 7xkk - ADD Vx, byte
ExecADDbyte(m, op) == incPc([m EXCEPT !.v[OpX(op)] = U8(@ + OpKK(op))], FALSE)

\* 8xy4 - ADD Vx, Vy
ExecADD(m, x, y) ==
  LET v1 == [m.v EXCEPT ![15] = IF m.v[y] > U8(255 - m.v[x]) THEN 1 ELSE 0]
  IN  [m EXCEPT !.v = [v1 EXCEPT ![x] = U8(v1[x] + v1[y])]]

\* 8xy5 - SUB Vx, Vy
ExecSUB(m, x, y) ==
  LET v1 == [m.v EXCEPT ![15] = IF m.v[x] > m.v[y] THEN 1 ELSE 0]
  IN  [m EXCEPT !.v = [v1 EXCEPT ![x] = U8(v1[x] - v1[y])]]

\* 8xy6 - SHR Vx
ExecSHR(m, x) ==
  LET v1 == [m.v EXCEPT ![15] = BitAnd(m.v[x], 1)]
  IN  [m EXCEPT !.v = [v1 EXCEPT ![x] = Shr(v1[x], 1)]]

\* 8xy7 - SUBN Vx, Vy
ExecSUBN(m, x, y) ==
  LET v1 == [m.v EXCEPT ![15] = IF m.v[y] > m.v[x] THEN 1 ELSE 0]
  IN  [m EXCEPT !.v = [v1 EXCEPT ![x] = U8(v1[y] - v1[x])]]

\* 8xyE - SHL Vx
ExecSHL(m, x) ==
  LET v1 == [m.v EXCEPT ![15] = Shr(BitAnd(x, 128), 7)]
  IN  [m EXCEPT !.v = [v1 EXCEPT ![x] = U8(v1[x] * 2)]]

Exec8(m, op) ==
  LET x == OpX(op)
      y == OpY(op)
      n == BitAnd(op, 15)
  IN  IF n = 0 THEN incPc([m EXCEPT !.v[x] = m.v[y]], FALSE)
      ELSE IF n = 1 THEN incPc([m EXCEPT !.v[x] = BitOr(m.v[x], m.v[y])], FALSE)
      ELSE IF n = 2 THEN incPc([m EXCEPT !.v[x] = BitAnd(m.v[x], m.v[y])], FALSE)
      ELSE IF n = 3 THEN incPc([m EXCEPT !.v[x] = BitXor(m.v[x], m.v[y])], FALSE)
      ELSE IF n = 4 THEN incPc(ExecADD(m, x, y), FALSE)
      ELSE IF n = 5 THEN incPc(ExecSUB(m, x, y), FALSE)
      ELSE IF n = 6 THEN incPc(ExecSHR(m, x), FALSE)
      ELSE IF n = 7 THEN incPc(ExecSUBN(m, x, y), FALSE)
      ELSE IF n = 14 THEN incPc(ExecSHL(m, x), FALSE)
      ELSE Unknown(m, op)

\* 9xy0 - SNE Vx, Vy
Exec9(m, op) ==
  IF BitAnd(op, 15) = 0
    THEN incPc(m, m.v[OpX(op)] # m.v[OpY(op)])
    ELSE Unknown(m, op)

\* Annn - LD I, addr
ExecLDI(m, op) == incPc([m EXCEPT !.i = OpNNN(op)], FALSE)

\* Bnnn - JP V0, addr
ExecJPV0(m, op) == [m EXCEPT !.pc = U16(OpNNN(op) + m.v[0])]

\* Cxkk - RND Vx, byte; rnd is the value of rand.Intn(0x100)
ExecRND(m, op, rnd) ==
  incPc([m EXCEPT !.v[OpX(op)] = BitAnd(OpKK(op), U8(rnd))], FALSE)

\* Dxyn - the body of the inner loop for one column of one sprite row
DrawPixel(m, x, y, row, spriteRow, col) ==
  IF BitAnd(spriteRow, U8(2 ^ (7 - col))) # 0
    THEN LET ci == U8(m.v[x] + col) % DisplayWidth
             cj == U8(m.v[y] + row) % DisplayHeight
         IN  IF <<ci, cj>> \in m.Gfx
               THEN [m EXCEPT !.Gfx = @ \ {<<ci, cj>>}, !.v[15] = 1]
               ELSE [m EXCEPT !.Gfx = @ \cup {<<ci, cj>>}]
    ELSE m

RECURSIVE DrawCols(_, _, _, _, _, _)
DrawCols(m, x, y, row, spriteRow, col) ==
  IF col >= 8 THEN m
  ELSE DrawCols(DrawPixel(m, x, y, row, spriteRow, col), x, y, row, spriteRow, col + 1)

\* the row loop with the collision flag cleared at every row
RECURSIVE DrawRowsResetFlag(_, _, _, _, _)
DrawRowsResetFlag(m, x, y, n, row) ==
  IF row >= n THEN m
  ELSE LET a == U16(m.i + row)
       IN  IF a >= MemSize
             THEN Panic(m, "mem", a)
             ELSE DrawRowsResetFlag(
                    DrawCols([m EXCEPT !.v[15] = 0], x, y, row, MemGet(m.mem, a), 0),
                    x, y, n, row + 1)

RECURSIVE DrawRows(_, _, _, _, _)
DrawRows(m, x, y, n, row) ==
  IF row >= n THEN m
  ELSE LET a == U16(m.i + row)
       IN  IF a >= MemSize
             THEN Panic(m, "mem", a)
             ELSE DrawRows(DrawCols(m, x, y, row, MemGet(m.mem, a), 0), x, y, n, row + 1)

\* Dxyn - DRW Vx, Vy, nibble
ExecDRW(m, op) ==
  LET r == DrawRows([m EXCEPT !.v[15] = 0], OpX(op), OpY(op), OpN(op), 0)
  IN  IF r.ret = "run" THEN incPc([r EXCEPT !.Draw = TRUE], FALSE) ELSE r

\* c8.Key[c8.v[x]]
KeyIndexed(m, x) == m.v[x] \in m.Key

\* Ex9E - SKP Vx, ExA1 - SKNP Vx
ExecE(m, op) ==
  LET x  == OpX(op)
      lo == BitAnd(op, 255)
  IN  IF lo = 158
        THEN IF m.v[x] >= NumKeys THEN Panic(m, "key", m.v[x])
             ELSE incPc(m, KeyIndexed(m, x))
      ELSE IF lo = 161
        THEN IF m.v[x] >= NumKeys THEN Panic(m, "key", m.v[x])
             ELSE incPc(m, ~ KeyIndexed(m, x))
      ELSE Unknown(m, op)

\* c8.mem[a] = b
StoreMem(m, a, b) ==
  IF m.ret # "run" THEN m
  ELSE IF a >= MemSize THEN Panic(m, "mem", a)
  ELSE [m EXCEPT !.mem = MemSet(@, a, b)]

\* Fx29 without the check of Vx
ExecLDFNoCheck(m, x) == [m EXCEPT !.i = m.v[x] * 5]

\* Fx29 - LD F, Vx
ExecLDF(m, x) ==
  IF m.v[x] > 15 THEN InvalidDigit(m, m.v[x])
  ELSE [m EXCEPT !.i = m.v[x] * 5]

\* Fx33 - LD B, Vx
\* Fx33 with the tens digit taken from Vx / 10
ExecBCDTens(m, x) ==
  LET m1 == StoreMem(m, m.i, m.v[x] \div 100)
      m2 == StoreMem(m1, U16(m.i + 1), m.v[x] \div 10)
  IN  StoreMem(m2, U16(m.i + 2), m.v[x] % 10)

ExecBCD(m, x) ==
  LET m1 == StoreMem(m, m.i, m.v[x] \div 100)
      m2 == StoreMem(m1, U16(m.i + 1), (m.v[x] % 100) \div 10)
  IN  StoreMem(m2, U16(m.i + 2), m.v[x] % 10)

\* Fx55 - LD [I], Vx
\* Fx55 that stores V0 only
ExecStoreRegsFirst(m, x, k) == StoreMem(m, m.i, m.v[0])

RECURSIVE ExecStoreRegs(_, _, _)
ExecStoreRegs(m, x, k) ==
  IF m.ret # "run" \/ k >= U8(x + 1) THEN m
  ELSE ExecStoreRegs(StoreMem(m, U16(m.i + k), m.v[k]), x, k + 1)

\* Fx65 - LD Vx, [I]
RECURSIVE ExecLoadRegs(_, _, _)
ExecLoadRegs(m, x, k) ==
  IF k >= U8(x + 1) THEN m
  ELSE LET a == U16(m.i + k)
       IN  IF a >= MemSize THEN Panic(m, "mem", a)
           ELSE ExecLoadRegs([m EXCEPT !.v[k] = MemGet(m.mem, a)], x, k + 1)

\* the 0xf000 group; Fx0A leaves ret = "wait": the Waiting loop follows
ExecF(m, op) ==
  LET x  == OpX(op)
      lo == BitAnd(op, 255)
  IN  IF lo = 7 THEN incPc([m EXCEPT !.v[x] = m.dt], FALSE)
      ELSE IF lo = 10 THEN [m EXCEPT !.ret = "wait"]
      ELSE IF lo = 21 THEN incPc([m EXCEPT !.dt = m.v[x]], FALSE)
      ELSE IF lo = 24 THEN incPc([m EXCEPT !.st = m.v[x]], FALSE)
      ELSE IF lo = 30 THEN incPc([m EXCEPT !.i = U16(m.i + m.v[x])], FALSE)
      ELSE IF lo = 41 THEN IncIfRunning(ExecLDF(m, x))
      ELSE IF lo = 51 THEN IncIfRunning(ExecBCD(m, x))
      ELSE IF lo = 85 THEN IncIfRunning(ExecStoreRegs(m, x, 0))
      ELSE IF lo = 101 THEN IncIfRunning(ExecLoadRegs(m, x, 0))
      ELSE Unknown(m, op)

\* timers decremented without the test for zero
TimersUnguarded(m) ==
  [m EXCEPT !.dt = U8(@ - 1), !.st = U8(@ - 1), !.ret = "nil"]

\* the timers at the end of Cycle, then return nil
Timers(m) ==
  [m EXCEPT !.dt  = IF @ > 0 THEN @ - 1 ELSE @,
            !.st  = IF @ > 0 THEN @ - 1 ELSE @,
            !.ret = "nil"]

\* switch op & 0xf000
Exec(m, op, rnd) ==
  LET g == BitAnd(op, 61440)
  IN  IF g = 0 THEN Exec0(m, op)
      ELSE IF g = 4096 THEN ExecJP(m, op)
      ELSE IF g = 8192 THEN ExecCALL(m, op)
      ELSE IF g = 12288 THEN ExecSEbyte(m, op)
      ELSE IF g = 16384 THEN ExecSNEbyte(m, op)
      ELSE IF g = 20480 THEN Exec5(m, op)
      ELSE IF g = 24576 THEN ExecLDbyte(m, op)
      ELSE IF g = 28672 THEN ExecADDbyte(m, op)
      ELSE IF g = 32768 THEN Exec8(m, op)
      ELSE IF g = 36864 THEN Exec9(m, op)
      ELSE IF g = 40960 THEN ExecLDI(m, op)
      ELSE IF g = 45056 THEN ExecJPV0(m, op)
      ELSE IF g = 49152 THEN ExecRND(m, op, rnd)
      ELSE IF g = 53248 THEN ExecDRW(m, op)
      ELSE IF g = 57344 THEN ExecE(m, op)
      ELSE IF g = 61440 THEN ExecF(m, op)
      ELSE Unknown(m, op)

\* the opcode at pc; FetchFault is the index whose read panics, or -1
FetchFault(m) ==
  IF m.pc >= MemSize THEN m.pc
  ELSE IF U16(m.pc + 1) >= MemSize THEN U16(m.pc + 1)
  ELSE -1

Fetch(m) == BitOr(MemGet(m.mem, m.pc) * 256, MemGet(m.mem, U16(m.pc + 1)))

\* Cycle up to its return, or up to the first call of waitForInput
CycleRun(m, rnd) ==
  IF FetchFault(m) # -1 THEN Panic(m, "mem", FetchFault(m))
  ELSE LET r == Exec([m EXCEPT !.Draw = FALSE], Fetch(m), rnd)
       IN  IF r.ret = "run" THEN Timers(r) ELSE r

\* a scan that starts at index 1
ScannedKeysFromOne(keys) == {k \in 1..(NumKeys - 1) : k \in keys}

\* the scan of the keypad after waitForInput returned: the indices the loop
\* for i := uint8(0); i < 0x10; i++ finds pressed
ScannedKeys(keys) == {k \in 0..(NumKeys - 1) : k \in keys}

\* the index at which the scan breaks out of the Waiting loop
FirstKey(keys) == CHOOSE k \in ScannedKeys(keys) : \A k2 \in ScannedKeys(keys) : k <= k2

\* the wait left without storing the key
WaitDoneNoStore(m, op) == Timers(incPc([m EXCEPT !.ret = "run"], FALSE))

\* the rest of Cycle once the Waiting loop is left
WaitDone(m, op) ==
  Timers(incPc([m EXCEPT !.v[OpX(op)] = FirstKey(m.Key), !.ret = "run"], FALSE))

\* ------------------------------------------------------------------------
\* ROM files: the inputs of LoadRom
\* ------------------------------------------------------------------------

\* the bytes of a program given as its opcodes, high byte first
Asm(ops) ==
  [k \in 1..(2 * Len(ops)) |->
     IF k % 2 = 1 THEN ops[(k + 1) \div 2] \div 256 ELSE ops[k \div 2] % 256]

\* 8xy5, 8xy7, 8xy4, 8xyE, 8xy6 and the bitwise group on random operands
RomArith == Asm(<< \hC0FF, \hC1FF, \h8015, \h8107, \h8014, \h800E, \h8106,
                   \h8011, \h8012, \h8013, \h8010 >>)

\* the flag register as an operand
RomArithF == Asm(<< \hCFFF, \hC1FF, \h8F15, \h81F7, \h8F14, \h8FFE >>)

\* 8xy4 with the flag register as the second operand
RomAddF == Asm(<< \hCFFF, \hC1FF, \h81F4 >>)

\* 3xkk, 4xkk, 5xy0, 9xy0 on random operands
RomSkip == Asm(<< \hC081, \hC181, \h3080, \h6201, \h4081, \h6301, \h5010,
                  \h6401, \h9010, \h6501, \h6601, \hCF81, \h3F01, \h5FE0,
                  \h9EF0, \h4F80, \h5770, \h9770 >>)

\* nested calls and returns, then a return at depth 0
RomCall == Asm(<< \h2208, \h2208, \h00EE, \h0000, \h6001, \h220E, \h00EE,
                  \h00EE >>)

\* a return with no call before it
RomReturn == Asm(<< \h00EE >>)

\* a subroutine that calls itself
RomRecurse == Asm(<< \h6001, \h2202 >>)

\* opcodes outside the instruction set, after a draw
RomUnknown(bad) == Asm(<< \hA000, \hD005, \h6103, \hF115, bad >>)

BadOpcodes == { \h0000, \h01E0, \h0FEE, \h00E1, \h5001, \h800F, \h8008,
                \h9001, \hE000, \hE19F, \hF0FF, \hF000 }

\* jumps to the end of memory and past it
RomJumpEnd == Asm(<< \h1FFF >>)

RomJumpV0 == Asm(<< \hC0FF, \hBF02 >>)

\* Ex9E, ExA1 on a random key index, then Fx0A
RomKeys == Asm(<< \hC011, \hE09E, \h6201, \hE0A1, \h6301, \hF40A, \h6501 >>)

\* Fx15, Fx07, Fx18 and a loop that runs the delay timer down
RomTimer == Asm(<< \h6003, \hF015, \hF018, \hF107, \h3100, \h1206, \hF20A,
                   \h00E0 >>)

\* draws at random positions, twice, then clears
RomDraw == Asm(<< \hA005, \hC03F, \hC11F, \hD015, \hD015, \h00E0 >>)

\* a draw positioned by the flag register, twice, over a lit row
RomDrawF == Asm(<< \hA000, \hD001, \h6F01, \hDF01, \hDF01 >>)

\* a sprite whose first row only collides
RomDrawRows == Asm(<< \hA000, \hD001, \hD005, \hD005 >>)

\* sprite rows past the end of memory
RomDrawEnd == Asm(<< \hAFFE, \hD003 >>)

\* Fx1E, Fx33, Fx55, Fx65, Fx29 inside memory and past its end
RomIndex == Asm(<< \hC0FF, \hA300, \hF033, \hF155, \hF165, \hF029, \hD005,
                   \hAFFE, \hF01E, \hF033 >>)

RomRegsEnd == Asm(<< \h60FF, \hAFF8, \hFF55, \hFF65 >>)

RomLoadEnd == Asm(<< \hAFFF, \hF165 >>)

\* a file of n bytes: a jump to 0x200, zeros, and a last byte that is not 0
RomOfSize(n) ==
  [k \in 1..n |-> IF k = 1 THEN 18 ELSE IF k = n THEN 171 ELSE 0]

\* sizes of files around the size of the memory above 0x200
RomSizes == {1, 3, maxRomSize - 1, maxRomSize, maxRomSize + 1, maxRomSize + 2}

\* Fx33 on the last three bytes of memory
RomBcdEnd == Asm(<< \hC0FF, \hAFFD, \hF033 >>)

\* Fx55 and Fx65 on the last sixteen bytes of memory, V0 and VF overwritten
\* in between
RomRegsRound == Asm(<< \hC0FF, \h6F07, \hAFF0, \hFF55, \h6000, \h6F00,
                       \hFF65 >>)

\* an unknown opcode met with the delay timer running and the display drawn
RomErrAfterDraw == Asm(<< \h6005, \hF015, \hA000, \hD001, \hFFFF >>)

Roms ==
  { RomArith, RomArithF, RomAddF, RomSkip, RomCall, RomReturn, RomRecurse, RomJumpEnd, RomJumpV0,
    RomKeys, RomTimer, RomDraw, RomDrawF, RomDrawRows, RomDrawEnd, RomIndex, RomRegsEnd, RomLoadEnd,
    << >> }
  \cup { RomUnknown(bad) : bad \in BadOpcodes }
  \cup { RomOfSize(n) : n \in RomSizes }
  \cup { RomBcdEnd }
  \cup { RomRegsRound }
  \cup { RomErrAfterDraw }

\* ------------------------------------------------------------------------
\* LoadRom
\* ------------------------------------------------------------------------

\* rom.Read(c8.mem[0x200:]): the count of bytes read
BytesRead(rom) == IF Len(rom) > MemSize - 512 THEN MemSize - 512 ELSE Len(rom)

LoadRom(m, rom) ==
  LET n  == BytesRead(rom)
      m1 == [m EXCEPT !.mem =
               [a \in ((DOMAIN m.mem) \ (512..(511 + n)))
                        \cup {512 + k - 1 : k \in {z \in 1..n : rom[z] # 0}}
                  |-> IF a \in 512..(511 + n) THEN rom[a - 511] ELSE m.mem[a]]]
  IN  IF n = 0 THEN [m1 EXCEPT !.ret = "ReadError"]
      ELSE IF n > maxRomSize THEN [m1 EXCEPT !.ret = "TooBig"]
      ELSE [m1 EXCEPT !.ret = "nil"]

\* ------------------------------------------------------------------------
\* keyHandler and the event loop
\* ------------------------------------------------------------------------

\* a key event is <<action, key>>
KeyEvents == {"Press", "Release"} \X (0..MaxKey)

keyHandler(keys, ev) ==
  IF ev[1] = "Press" THEN keys \cup {ev[2]}
  ELSE IF ev[1] = "Release" THEN keys \ {ev[2]}
  ELSE keys

RECURSIVE Dispatch(_, _)
Dispatch(keys, evs) ==
  IF evs = << >> THEN keys
  ELSE Dispatch(keyHandler(keys, Head(evs)), Tail(evs))

\* the queues of events one call of PollEvents or WaitEvents may dispatch
EventQueues == UNION {[1..n -> KeyEvents] : n \in 0..MaxEvents}

\* ------------------------------------------------------------------------
\* State
\* ------------------------------------------------------------------------

VARIABLES
  Gfx, Key, Draw, mem, v, stack, i, pc, sp, dt, st,  \* the Chip8 struct
  ret,    \* how the last call of LoadRom or Cycle ended; "run" before any
  fault,  \* the array whose index was out of range when ret = "panic"
  errv,   \* the value the error or the panic carries
  host,   \* where main is: "load", "cycle", "waiting", "scan", "poll", "dead"
  op,     \* the opcode the last Cycle fetched, -1 when it fetched none
  prev,   \* the machine as it was when the last Cycle was called
  calls,  \* for every 2nnn not yet returned from: pc and sp before it
  loaded, \* the bytes of the file LoadRom was called on, << >> before
  stored  \* V, I and x of the last Fx55 that returned nil, ok = FALSE before

vars == << Gfx, Key, Draw, mem, v, stack, i, pc, sp, dt, st,
           ret, fault, errv, host, op, prev, calls, loaded, stored >>

\* the machine as a record
M ==
  [ Gfx |-> Gfx, Key |-> Key, Draw |-> Draw, mem |-> mem, v |-> v,
    stack |-> stack, i |-> i, pc |-> pc, sp |-> sp, dt |-> dt, st |-> st,
    ret |-> ret, fault |-> fault, errv |-> errv ]

\* the machine becomes r
Becomes(r) ==
  /\ Gfx' = r.Gfx /\ Key' = r.Key /\ Draw' = r.Draw /\ mem' = r.mem
  /\ v' = r.v /\ stack' = r.stack /\ i' = r.i /\ pc' = r.pc /\ sp' = r.sp
  /\ dt' = r.dt /\ st' = r.st
  /\ ret' = r.ret /\ fault' = r.fault /\ errv' = r.errv

\* the bytes rand.Intn(0x100) is drawn from
RandBytes ==
  {b \in 0..255 : \/ b < RandEdge
                  \/ b >= 256 - RandEdge
                  \/ (b >= 128 - RandEdge /\ b < 128 + RandEdge)}

\* only Cxkk calls rand.Intn
RandDraws(m) ==
  IF FetchFault(m) = -1 /\ BitAnd(Fetch(m), 61440) = 49152 THEN RandBytes ELSE {0}

IsCALL(o) == o \in 8192..12287

IsRET(o) == o \in 0..4095 /\ o % 256 = 238

\* calls after a Cycle that fetched o and went from sp s0 to r
CallsAfter(cs, o, m, r) ==
  IF r.ret # "nil" THEN cs
  ELSE IF IsCALL(o) THEN Append(cs, [pc |-> m.pc, sp |-> m.sp])
  ELSE IF IsRET(o) /\ cs # << >> THEN SubSeq(cs, 1, Len(cs) - 1)
  ELSE cs

IsSTR(o) == o \in 61440..65535 /\ o % 256 = 85

\* stored after a Cycle that fetched o and went from m to r
StoredAfter(sv, o, m, r) ==
  IF r.ret = "nil" /\ IsSTR(o)
  THEN [v |-> m.v, i |-> m.i, x |-> OpX(o), ok |-> TRUE]
  ELSE sv

Init ==
  /\ Gfx = New.Gfx /\ Key = New.Key /\ Draw = New.Draw /\ mem = New.mem
  /\ v = New.v /\ stack = New.stack /\ i = New.i /\ pc = New.pc /\ sp = New.sp
  /\ dt = New.dt /\ st = New.st
  /\ ret = New.ret /\ fault = New.fault /\ errv = New.errv
  /\ host = "load"
  /\ op = -1
  /\ prev = New
  /\ calls = << >>
  /\ loaded = << >>
  /\ stored = [v |-> New.v, i |-> New.i, x |-> 0, ok |-> FALSE]

\* main: c8.LoadRom(os.Args[1]); panic(err) on an error
MainLoadRom ==
  /\ host = "load"
  /\ \E rom \in Roms :
       LET r == LoadRom(M, rom)
       IN  /\ Becomes(r)
           /\ host' = IF r.ret = "nil" THEN "cycle" ELSE "dead"
           /\ loaded' = rom
  /\ UNCHANGED << op, prev, calls, stored >>

\* main that goes on to PollEvents whatever Cycle returned
HostAfterCycleIgnoreErr(r) ==
  IF r.ret = "wait" THEN "waiting"
  ELSE IF r.ret = "panic" THEN "dead"
  ELSE "poll"

\* main: if err := c8.Cycle(...); err != nil { panic(err) }
HostAfterCycle(r) ==
  IF r.ret = "nil" THEN "poll"
  ELSE IF r.ret = "wait" THEN "waiting"
  ELSE "dead"

\* main: c8.Cycle(glfw.WaitEvents) up to its return or to the Waiting loop
Cycle ==
  /\ host = "cycle"
  /\ \E rnd \in RandDraws(M) :
       LET m0 == [M EXCEPT !.ret = "run"]
           r  == CycleRun(m0, rnd)
           o  == IF FetchFault(m0) # -1 THEN -1 ELSE Fetch(m0)
       IN  /\ Becomes(r)
           /\ op' = o
           /\ prev' = M
           /\ calls' = CallsAfter(calls, o, m0, r)
           /\ loaded' = loaded
           /\ stored' = StoredAfter(stored, o, m0, r)
           /\ host' = HostAfterCycle(r)

\* Cycle, Waiting loop: waitForInput() = glfw.WaitEvents dispatches events
WaitForInput ==
  /\ host = "waiting"
  /\ \E evs \in EventQueues : Key' = Dispatch(Key, evs)
  /\ host' = "scan"
  /\ UNCHANGED << Gfx, Draw, mem, v, stack, i, pc, sp, dt, st,
                  ret, fault, errv, op, prev, calls, loaded, stored >>

\* Cycle, Waiting loop: the scan of c8.Key, and the rest of Cycle
ScanKeys ==
  /\ host = "scan"
  /\ IF ScannedKeys(Key) = {}
       THEN /\ host' = "waiting"
            /\ UNCHANGED << Gfx, Key, Draw, mem, v, stack, i, pc, sp, dt, st,
                            ret, fault, errv >>
       ELSE /\ Becomes(WaitDone(M, op))
            /\ host' = "poll"
  /\ UNCHANGED << op, prev, calls, loaded, stored >>

\* main: glfw.PollEvents() dispatches the pending events to keyHandler
PollEvents ==
  /\ host = "poll"
  /\ \E evs \in EventQueues : Key' = Dispatch(Key, evs)
  /\ host' = "cycle"
  /\ UNCHANGED << Gfx, Draw, mem, v, stack, i, pc, sp, dt, st,
                  ret, fault, errv, op, prev, calls, loaded, stored >>

Next ==
  \/ MainLoadRom
  \/ Cycle
  \/ WaitForInput
  \/ ScanKeys
  \/ PollEvents

Spec == Init /\ [][Next]_vars

\* the Waiting loop goes on as long as it is not left
FairSpec == Spec /\ WF_vars(ScanKeys)

TypeOK ==
  /\ Gfx \subseteq (0..(DisplayWidth - 1)) \X (0..(DisplayHeight - 1))
  /\ Key \subseteq 0..(NumKeys - 1)
  /\ Draw \in BOOLEAN
  /\ DOMAIN mem \subseteq 0..(MemSize - 1)
  /\ \A a \in DOMAIN mem : mem[a] \in 1..255
  /\ v \in [0..15 -> 0..255]
  /\ stack \in [0..(StackSize - 1) -> 0..65535]
  /\ i \in 0..65535 /\ pc \in 0..65535 /\ sp \in 0..255
  /\ dt \in 0..255 /\ st \in 0..255
  /\ host \in {"load", "cycle", "waiting", "scan", "poll", "dead"}

\* ------------------------------------------------------------------------
\* Properties
\* ------------------------------------------------------------------------

\* a Cycle has been called and has returned nil
ReturnedNil == op # -1 /\ host \in {"poll", "cycle"} /\ ret = "nil"

\* a Cycle has been called and has returned an error
ReturnedErr == op # -1 /\ host = "dead" /\ ret \in {"Unknown", "Digit"}

\* a Cycle has been called and a run-time panic ended it
Panicked == host = "dead" /\ ret = "panic"

\* the machine is as it was when the last Cycle was called, Draw aside
SameAsPrev ==
  /\ Gfx = prev.Gfx /\ Key = prev.Key /\ mem = prev.mem /\ v = prev.v
  /\ stack = prev.stack /\ i = prev.i /\ pc = prev.pc /\ sp = prev.sp
  /\ dt = prev.dt /\ st = prev.st

\* the fields of an opcode, by arithmetic
NibX(o) == (o \div 256) % 16

NibY(o) == (o \div 16) % 16

NibN(o) == o % 16

LowByte(o) == o % 256

Group(o) == o \div 4096

\* the instruction patterns the instruction table enumerates
Enumerated(o) ==
  \/ o = 224 \/ o = 238
  \/ Group(o) \in {1, 2, 3, 4, 6, 7, 10, 11, 12, 13}
  \/ Group(o) \in {5, 9} /\ NibN(o) = 0
  \/ Group(o) = 8 /\ NibN(o) \in (0..7) \cup {14}
  \/ Group(o) = 14 /\ LowByte(o) \in {158, 161}
  \/ Group(o) = 15 /\ LowByte(o) \in {7, 10, 21, 24, 30, 41, 51, 85, 101}

\* C1: no Cycle faults on an out-of-range index: every memory access (fetch
\* at PC and PC+1, sprite rows, Fx33, Fx55, Fx65) uses an address in
\* 0..0xFFF and every keypad lookup of Ex9E/ExA1 an index in 0..15.
C1_NoIndexFault == ~ (ret = "panic" /\ fault \in {"mem", "key"})

\* C2: the stack pointer is always in 0..16, and 2nnn and 00EE only use
\* the stack slots 0..15: no call at depth 16 reaches past the stack and no
\* return at depth 0 moves the stack pointer below 0.
C2_StackPointerInRange == sp \in 0..16 /\ ~ (ret = "panic" /\ fault = "stack")

\* C3: an opcode that matches none of the enumerated instruction patterns
\* makes Cycle return the Unknown opcode error carrying that opcode, and
\* no instruction is executed.
C3_UnknownOpcode ==
  (op # -1 /\ ~ Enumerated(op)) =>
     (ret = "Unknown" /\ errv = op /\ host = "dead" /\ SameAsPrev)

IsLDK(o) == Group(o) = 15 /\ LowByte(o) = 10

\* C4: a Cycle executing Fx0A does not return while no key is pressed: it
\* calls the polling hook and scans the keypad again; when it returns, Vx is
\* the index of a key that was pressed at the scan that ended the wait and
\* PC has advanced by 2.
C4_WaitForKey ==
  [][ /\ (host = "cycle" /\ host' # "dead" /\ IsLDK(op')) =>
            (host' = "waiting" /\ pc' = pc /\ v' = v)
      /\ host = "waiting" => (host' = "scan" /\ pc' = pc /\ v' = v)
      /\ (host = "scan" /\ Key = {}) =>
            (host' = "waiting" /\ pc' = pc /\ v' = v /\ Key' = Key)
      /\ (host = "scan" /\ Key # {}) =>
            /\ host' = "poll" /\ ret' = "nil"
            /\ v'[NibX(op)] \in Key
            /\ pc' = prev.pc + 2
            /\ \A r \in (0..15) \ {NibX(op)} : v'[r] = prev.v[r]
    ]_vars

\* C4 witness: an Fx0A that began with no key pressed has returned with the
\* pressed key in Vx and PC advanced by 2
C4_Witness ==
  /\ ReturnedNil /\ IsLDK(op) /\ host = "poll"
  /\ prev.Key = {} /\ v[NibX(op)] \in Key /\ pc = prev.pc + 2

\* C5: once the polling hook returns leaving some keypad flag set, the Cycle
\* executing Fx0A completes; the wait is left in no other way, so a hook
\* that never leaves a key pressed keeps the Cycle from returning.
C5_WaitLiveness ==
  /\ (host = "scan" /\ Key # {}) ~> (host = "poll")
  /\ [][ (host \in {"waiting", "scan"} /\ host' \notin {"waiting", "scan"})
            => (host = "scan" /\ Key # {}) ]_vars

\* C5 witness: the hook has returned leaving a key pressed after an earlier
\* scan found none
C5_Witness == host = "scan" /\ IsLDK(op) /\ Key # {} /\ prev.Key = {}

IsLDDT(o) == Group(o) = 15 /\ LowByte(o) = 21

\* C6 as stated: on every step the delay timer goes down by exactly one
\* while it is nonzero and stays at zero once zero.
C6_TimerEveryStep ==
  (ReturnedNil \/ ReturnedErr) =>
     dt = IF prev.dt > 0 THEN prev.dt - 1 ELSE 0

\* C6 as amended: a Cycle that returns nil leaves the delay timer one below
\* the value the instruction left it with when that is nonzero, and at zero
\* otherwise; the instruction leaves it alone unless it is Fx15, which sets
\* it to Vx. A Cycle that returns an error or panics leaves the delay timer
\* unchanged. The timer never leaves 0..255.
C6_Timer ==
  /\ dt \in 0..255
  /\ ReturnedNil =>
       LET set == IF IsLDDT(op) THEN prev.v[NibX(op)] ELSE prev.dt
       IN  dt = IF set > 0 THEN set - 1 ELSE 0
  /\ (ReturnedErr \/ Panicked) => dt = prev.dt

\* C6 witness: a Cycle other than Fx15 has taken a nonzero delay timer down
\* by one
C6_Witness ==
  ReturnedNil /\ ~ IsLDDT(op) /\ prev.dt > 1 /\ dt = prev.dt - 1

IsDRW(o) == Group(o) = 13

\* C7: after a Cycle returns, the redraw flag is set only if that Cycle
\* executed 00E0 or Dxyn (so every other Cycle, one returning an error
\* included, leaves it cleared), and it is set whenever the display buffer
\* differs from its value before the Cycle.
C7_RedrawFlag ==
  (ReturnedNil \/ ReturnedErr) =>
     /\ Gfx # prev.Gfx => Draw
     /\ Draw => (op = 224 \/ IsDRW(op))

\* C8 as stated: when a 00EE returns from the 2nnn it matches, PC after the
\* return equals PC before the call, and the stack pointer after the return
\* equals the stack pointer before the call.
C8_ReturnToCall ==
  [][ (host = "cycle" /\ op' = 238 /\ ret' = "nil" /\ calls # << >>) =>
         (pc' = calls[Len(calls)].pc /\ sp' = calls[Len(calls)].sp) ]_vars

\* C8 as amended: when a 00EE returns from the 2nnn it matches, PC after the
\* return equals PC before the call plus 2, the address of the instruction
\* that follows the call, and the stack pointer after the return equals the
\* stack pointer before the call.
C8_ReturnAfterCall ==
  [][ (host = "cycle" /\ op' = 238 /\ ret' = "nil" /\ calls # << >>) =>
         (pc' = calls[Len(calls)].pc + 2 /\ sp' = calls[Len(calls)].sp) ]_vars

\* C8 witness: a 00EE has returned from a nested call into the calling
\* subroutine
C8_Witness ==
  /\ ReturnedNil /\ op = 238 /\ host = "poll"
  /\ Len(calls) = 1 /\ prev.sp = 2 /\ sp = 1
  /\ pc = prev.stack[1] + 2

\* C9: 3xkk, 4xkk, 5xy0 and 9xy0 advance PC by 4 when their condition holds
\* (Vx = kk, Vx # kk, Vx = Vy, Vx # Vy) and by 2 otherwise, and change no
\* register, memory, stack or display state.
C9_Skips ==
  LET x   == NibX(op)
      y   == NibY(op)
      kk  == LowByte(op)
      cnd == IF Group(op) = 3 THEN prev.v[x] = kk
             ELSE IF Group(op) = 4 THEN prev.v[x] # kk
             ELSE IF Group(op) = 5 THEN prev.v[x] = prev.v[y]
             ELSE prev.v[x] # prev.v[y]
  IN  (/\ op # -1 /\ host \in {"poll", "cycle", "dead"}
       /\ \/ Group(op) \in {3, 4}
          \/ Group(op) \in {5, 9} /\ NibN(op) = 0) =>
        /\ ret = "nil"
        /\ pc = prev.pc + (IF cnd THEN 4 ELSE 2)
        /\ v = prev.v /\ i = prev.i /\ mem = prev.mem
        /\ stack = prev.stack /\ sp = prev.sp /\ Gfx = prev.Gfx

\* C9 witness: a 9xy0 on two registers that differ has skipped an instruction
C9_Witness ==
  /\ ReturnedNil /\ Group(op) = 9 /\ NibN(op) = 0
  /\ prev.v[NibX(op)] # prev.v[NibY(op)] /\ pc = prev.pc + 4

\* C10: for x, y # F, 8xy5 sets Vx to (Vx - Vy) mod 256 and VF to 1 iff
\* Vx >= Vy before the subtraction, else 0; 8xy7 sets Vx to (Vy - Vx) mod
\* 256 and VF to 1 iff Vy >= Vx before the subtraction, else 0.
C10_SubFlags ==
  LET x == NibX(op)
      y == NibY(op)
  IN  (/\ ReturnedNil /\ Group(op) = 8 /\ x # 15 /\ y # 15) =>
        /\ NibN(op) = 5 =>
             /\ v[x] = (prev.v[x] - prev.v[y]) % 256
             /\ v[15] = IF prev.v[x] >= prev.v[y] THEN 1 ELSE 0
        /\ NibN(op) = 7 =>
             /\ v[x] = (prev.v[y] - prev.v[x]) % 256
             /\ v[15] = IF prev.v[y] >= prev.v[x] THEN 1 ELSE 0

IsSHL(o) == Group(o) = 8 /\ NibN(o) = 14

\* C11: for x # F, 8xyE sets VF to bit 7 of Vx as it was before the shift
\* and Vx to (Vx << 1) mod 256; VF = 1 whenever Vx >= 0x80 before.
C11_ShiftLeftFlag ==
  (ReturnedNil /\ IsSHL(op) /\ NibX(op) # 15) =>
     /\ v[15] = prev.v[NibX(op)] \div 128
     /\ v[NibX(op)] = (prev.v[NibX(op)] * 2) % 256

IsADD(o) == Group(o) = 8 /\ NibN(o) = 4

\* C12: for x # F, 8xy4 sets Vx to (Vx + Vy) mod 256 and VF to 1 iff the
\* unwrapped sum Vx + Vy exceeds 255, else 0.
C12_AddCarry ==
  LET x == NibX(op)
      y == NibY(op)
  IN  (ReturnedNil /\ IsADD(op) /\ x # 15) =>
        /\ v[x] = (prev.v[x] + prev.v[y]) % 256
        /\ v[15] = IF prev.v[x] + prev.v[y] > 255 THEN 1 ELSE 0

\* the cells the sprite of the Dxyn o covers when drawn on the machine m:
\* for each set bit, most significant first, of the rows at I, I + 1, ...
SpriteCells(m, o) ==
  { << (m.v[NibX(o)] + col) % 64, (m.v[NibY(o)] + row) % 32 >> :
      << row, col >> \in
        { rc \in (0..(NibN(o) - 1)) \X (0..7) :
            (MemGet(m.mem, m.i + rc[1]) \div (2 ^ (7 - rc[2]))) % 2 = 1 } }

\* the cells whose value differs between two display buffers
Toggled(g1, g2) == (g1 \ g2) \cup (g2 \ g1)

\* C13: the cells a Dxyn toggles are exactly the cells ((Vx + col) mod 64,
\* (Vy + row) mod 32), for the values Vx and Vy held before the instruction
\* and any x, y in 0..15, of the set sprite bits of memory[I + row]; no
\* other cell changes.
C13_DrawCells ==
  (ReturnedNil /\ IsDRW(op)) => Toggled(prev.Gfx, Gfx) = SpriteCells(prev, op)

\* C14: after a Dxyn, VF = 1 iff at least one display cell that was on before
\* the instruction was turned off by it, and VF = 0 otherwise, whichever of
\* the n rows the cell is in.
C14_CollisionFlag ==
  (ReturnedNil /\ IsDRW(op)) =>
     v[15] = IF prev.Gfx \ Gfx # {} THEN 1 ELSE 0

\* C14 witness: a Dxyn has turned cells off in an upper row and turned cells
\* on in every row below it, and VF is 1
C14_Witness ==
  /\ ReturnedNil /\ IsDRW(op) /\ v[15] = 1
  /\ prev.Gfx \ Gfx # {}
  /\ \E c \in Gfx \ prev.Gfx : \A d \in prev.Gfx \ Gfx : c[2] > d[2]

\* the step is a Cycle that repeats the Dxyn the Cycle before it executed,
\* with I, the sprite bytes, Vx and Vy as they were before that first draw,
\* and the sprite has a set bit
RepeatsDraw ==
  /\ host = "cycle" /\ ret = "nil" /\ IsDRW(op)
  /\ host' # "cycle" /\ op' = op /\ ret' = "nil"
  /\ i = prev.i
  /\ v[NibX(op)] = prev.v[NibX(op)] /\ v[NibY(op)] = prev.v[NibY(op)]
  /\ \A row \in 0..(NibN(op) - 1) :
        MemGet(mem, i + row) = MemGet(prev.mem, prev.i + row)
  /\ \E row \in 0..(NibN(op) - 1) : MemGet(mem, i + row) # 0

\* C15: executing the same Dxyn twice in a row restores the display buffer
\* to its state before the first draw; when the cells the first draw
\* affected were off before it, the second draw turns every one of them off
\* again and sets VF to 1.
C15_DrawTwice ==
  [][ RepeatsDraw =>
        /\ Gfx' = prev.Gfx
        /\ (Toggled(prev.Gfx, Gfx) \cap prev.Gfx = {}) =>
              (Toggled(prev.Gfx, Gfx) \cap Gfx' = {} /\ v'[15] = 1) ]_vars

\* C16: loading a program image longer than 3584 bytes fails with the
\* oversized-program error and leaves memory, registers and PC as New left
\* them.
C16_OversizedRom ==
  (host # "load" /\ Len(loaded) > 3584) =>
     /\ ret = "TooBig" /\ host = "dead"
     /\ mem = New.mem /\ v = New.v /\ i = New.i /\ pc = New.pc

\* the first two bytes of the file, as the opcode they encode
FirstOpcode ==
  (IF Len(loaded) >= 1 THEN loaded[1] ELSE 0) * 256
    + (IF Len(loaded) >= 2 THEN loaded[2] ELSE 0)

\* C17: a program image of any length from 0 to 3583 bytes loads without
\* error, its bytes lie in memory from 0x200 on in the order of the file, and
\* the first Cycle decodes the pair mem[0x200], mem[0x201].
C17_LoadAndFirstFetch ==
  /\ []( (host # "load" /\ Len(loaded) <= 3583) =>
            /\ ret # "ReadError" /\ ret # "TooBig"
            /\ (op = -1 /\ host = "cycle") =>
                  \A k \in 1..Len(loaded) : MemGet(mem, 511 + k) = loaded[k] )
  /\ [][ (host = "cycle" /\ op = -1 /\ Len(loaded) <= 3583) =>
            op' = FirstOpcode ]_vars

IsLDF(o) == Group(o) = 15 /\ LowByte(o) = 41

FontIntact == \A a \in 0..79 : MemGet(mem, a) = fontset[a + 1]

\* C18: Fx29 returns the invalid-digit error whenever Vx > 0xF; otherwise
\* it sets I to Vx * 5, and while the font region 0x000-0x04F is as New left
\* it, memory[I..I+4] is the five-byte glyph of the hex digit Vx.
C18_FontDigit ==
  LET vx == prev.v[NibX(op)]
  IN  (op # -1 /\ IsLDF(op)) =>
        IF vx > 15
        THEN ReturnedErr /\ ret = "Digit" /\ errv = vx
        ELSE /\ ReturnedNil
             /\ i = vx * 5
             /\ FontIntact =>
                  \A k \in 0..4 : MemGet(mem, i + k) = fontset[5 * vx + k + 1]

\* C18 witness: Fx29 on Vx = 1 has returned nil with I on the glyph of 1
C18_Witness ==
  /\ ReturnedNil /\ IsLDF(op) /\ prev.v[NibX(op)] = 1 /\ i = 5 /\ FontIntact

ErrorReturned == ret \in {"ReadError", "TooBig", "Unknown", "Digit"}

\* C19: once LoadRom or a Cycle has returned an error, the host never
\* calls Cycle again.
C19_ErrorsFatal == [][ ErrorReturned => ~Cycle ]_vars

\* C19 witness: a Cycle has returned the unknown-opcode error and the host
\* has stopped
C19_Witness == ReturnedErr /\ ret = "Unknown" /\ ~ENABLED Cycle

IsBCD(o) == Group(o) = 15 /\ LowByte(o) = 51

\* C20: for every Vx and every I with I + 2 <= 0xFFF, Fx33 writes the
\* hundreds, tens and ones digit of Vx to memory[I], memory[I+1] and
\* memory[I+2] (each in 0..9, together giving Vx) and changes no other
\* memory cell, no register and not I.
C20_BcdDigits ==
  LET vx == prev.v[NibX(op)]
      a  == prev.i
  IN  (op # -1 /\ IsBCD(op) /\ a + 2 <= 4095) =>
        /\ ReturnedNil
        /\ MemGet(mem, a) = vx \div 100
        /\ MemGet(mem, a + 1) = (vx \div 10) % 10
        /\ MemGet(mem, a + 2) = vx % 10
        /\ \A k \in 0..2 : MemGet(mem, a + k) \in 0..9
        /\ 100 * MemGet(mem, a) + 10 * MemGet(mem, a + 1)
             + MemGet(mem, a + 2) = vx
        /\ \A b \in (0..4095) \ {a, a + 1, a + 2} :
             MemGet(mem, b) = MemGet(prev.mem, b)
        /\ v = prev.v
        /\ i = prev.i

\* C20 witness: Fx33 has written 2, 5, 5 for Vx = 255 to the last three
\* bytes of memory
C20_Witness ==
  /\ ReturnedNil /\ IsBCD(op) /\ prev.v[NibX(op)] = 255 /\ prev.i = 4093
  /\ MemGet(mem, 4093) = 2 /\ MemGet(mem, 4094) = 5 /\ MemGet(mem, 4095) = 5

IsLDR(o) == Group(o) = 15 /\ LowByte(o) = 101

\* the memory cells I..I+x hold what the last Fx55 wrote to them
StoredIntact(m) == \A k \in 0..stored.x : MemGet(m, stored.i + k) = stored.v[k]

\* C21: for every x in 0..15 and I with I + x <= 0xFFF, Fx55 copies exactly
\* V0..Vx to memory[I..I+x] and changes neither I nor a register; an Fx65
\* with the same x and I executed afterwards leaves V0..Vx as they were
\* before the Fx55 and the registers above Vx as they were before the Fx65.
C21_RegsRoundTrip ==
  LET x == NibX(op)
  IN  /\ (op # -1 /\ IsSTR(op) /\ prev.i + x <= 4095) =>
           /\ ReturnedNil
           /\ \A a \in 0..4095 :
                MemGet(mem, a) = IF a \in prev.i..(prev.i + x)
                                 THEN prev.v[a - prev.i]
                                 ELSE MemGet(prev.mem, a)
           /\ i = prev.i /\ v = prev.v
      /\ (/\ op # -1 /\ IsLDR(op) /\ stored.ok /\ stored.x = x
          /\ prev.i = stored.i /\ StoredIntact(prev.mem)) =>
           /\ ReturnedNil
           /\ \A k \in 0..15 :
                v[k] = IF k <= x THEN stored.v[k] ELSE prev.v[k]
           /\ i = prev.i /\ mem = prev.mem

\* C21 witness: FF65 has brought back V0 and VF, overwritten since the FF55
\* that stored them in the last sixteen bytes of memory
C21_Witness ==
  /\ ReturnedNil /\ IsLDR(op) /\ NibX(op) = 15 /\ stored.ok /\ stored.x = 15
  /\ stored.i = 4080 /\ prev.i = 4080
  /\ prev.v[0] # stored.v[0] /\ prev.v[15] # stored.v[15]
  /\ v = stored.v

\* C22: when Cycle returns an error (unknown opcode or invalid digit),
\* memory, registers, I, PC, stack, stack pointer, both timers and the
\* display are as they were when it was called and the redraw flag is
\* cleared; a Cycle called again in that state returns the same error.
C22_ErrorLeavesState ==
  ReturnedErr =>
    /\ SameAsPrev
    /\ Draw = FALSE
    /\ \A rnd \in RandBytes :
         LET r == CycleRun([M EXCEPT !.ret = "run"], rnd)
         IN  r.ret = ret /\ r.errv = errv

\* C22 witness: an unknown opcode has been met with the redraw flag set, the
\* delay timer running and cells lit
C22_Witness ==
  /\ ReturnedErr /\ ret = "Unknown" /\ prev.Draw /\ ~Draw
  /\ dt = 2 /\ Gfx # {} /\ pc = 520

=============================================================================
